---- MODULE Spec2Model ----
(***************************************************************************)
(* DevFlow task store (src/src/taskManager.ts): the .tasks.json file, the  *)
(* load/save pair, the mutation operations, the getTasks query, the remote *)
(* loader, the reconciler that merges the local list with a remote list,   *)
(* and the fingerprint of the merged list.                                 *)
(***************************************************************************)
EXTENDS Integers, Sequences, FiniteSets, TLC

\* ---------------------------------------------------------------- bounds
MaxTasks == 2       \* addTask is not offered beyond this many stored tasks
MaxClock == 2       \* the wall clock now() runs over 1..MaxClock
MaxDate == 1        \* snooze dates are the day numbers 1..MaxDate
MaxRemote == 2      \* a remote response carries at most this many tasks
MaxInFlight == 1    \* remote requests of one view awaiting their response
MaxQueryTasks == 3  \* tasks of a file that getTasks is asked about
MaxChunks == 2      \* "data" events of one response

\* Outcomes of crypto.randomUUID().slice(0, 8): nothing in generateId looks at
\* the ids already stored, so every value can come out at every call.
Ids == {"a", "b"}
Titles == {"t"}
Dates == 1..MaxDate

\* An optional property is a sequence of length 0 (key absent) or 1.
Absent == <<>>
Some(x) == <<x>>
\* The JS value undefined held under an existing key (addTask called
\* without a description builds { description: undefined }).
Undefined == <<"#undefined">>
\* The description arguments of addTask: the devflow.addTask command, the one
\* caller in the extension, passes none.
Descriptions == {Undefined}

\* The return value null / no return value.
Null == <<>>

\* A call that ends by raising: what the caller gets is the exception.
TypeError == <<"throw", "TypeError">>

\* What reading a property gives when the value read from is not a store: the
\* value undefined (the property is not there), or nothing at all (the value
\* is null, and the read itself raises).
UndefinedMark == <<[js |-> "undefined"]>>
NullMark == <<[js |-> "null"]>>
IsMark(v) == Len(v) = 1 /\ "js" \in DOMAIN v[1]

VARIABLES
    file,       \* content of <dir>/.tasks.json
    clock,      \* the time now() returns
    op,         \* name of the operation that took the last step
    arg,        \* its id argument (a sequence: empty when it has none)
    ret,        \* its return value (a sequence: empty for null / void)
    treeUrl,            \* TaskTreeProvider.serverUrl is set
    treeTasks,          \* TaskTreeProvider.tasks, the list the tree shows
    lastFingerprint,    \* TaskTreeProvider._lastFingerprint
    polls,      \* pollRemote calls awaiting the remote: the local list of each
    lastPoll,   \* the pollRemote that finished last: its lists and its merge
    sidebarUrl, \* DevFlowSidebarProvider._serverUrl is set
    fetches,    \* sidebar refreshes awaiting the remote: the local list of each
    posted,     \* the last "update" message posted to the sidebar webview
    remote,     \* one call of loadTasksFromRemote: its request and its promise
    lastLocal,  \* the local list the tree provider read last (refresh or poll)
    writers,    \* store operations under way in the processes that share the file
    deletes,    \* sidebar deleteTask messages awaiting deleteTaskFromRemote
    panel,      \* the DevFlow panel: disposed or not, its fetches, its messages
    watch       \* the file watchers of activate: lastTaskIds and the notifications

storeVars == <<file, clock, op, arg, ret>>
treeVars == <<treeUrl, treeTasks, lastFingerprint, polls, lastPoll, lastLocal>>
sidebarVars == <<sidebarUrl, fetches, posted>>
otherVars == <<writers, deletes, panel, watch>>
vars == <<file, clock, op, arg, ret, treeUrl, treeTasks, lastFingerprint, polls,
          lastPoll, sidebarUrl, fetches, posted, remote, lastLocal, writers, deletes,
          panel, watch>>

\* ------------------------------------------------------------ the file
\* A file that does not exist, or one whose text JSON.parse rejects.
MissingFile == [kind |-> "missing", version |-> 1, tasks |-> <<>>, lastUpdated |-> 1]
CorruptFile == [kind |-> "corrupt", version |-> 1, tasks |-> <<>>, lastUpdated |-> 1]
\* Files whose text is valid JSON of another shape than the store: the text
\* null, the text [] and the text {}.
NullFile == [kind |-> "null", version |-> 1, tasks |-> <<>>, lastUpdated |-> 1]
ArrayFile == [kind |-> "array", version |-> 1, tasks |-> <<>>, lastUpdated |-> 1]
ObjectFile == [kind |-> "object", version |-> 1, tasks |-> <<>>, lastUpdated |-> 1]
ShapelessFiles == {NullFile, ArrayFile, ObjectFile}

now == clock

EmptyStore(t) == [version |-> 1, tasks |-> <<>>, lastUpdated |-> t]

\* JSON.stringify drops a property whose value is undefined. description is
\* the one property the code can leave undefined: completedAt and
\* snoozedUntil are either never assigned or assigned a string.
StringifyOpt(v) == IF v = Undefined THEN Absent ELSE v

StringifyTask(t) ==
    [id |-> t.id, title |-> t.title,
     description |-> StringifyOpt(t.description),
     status |-> t.status, createdAt |-> t.createdAt,
     completedAt |-> t.completedAt,
     snoozedUntil |-> t.snoozedUntil]

\* A writer that puts the newest task first in the text it writes.
StringifyNewestFirst(data) ==
    [kind |-> "valid", version |-> data.version,
     tasks |-> [i \in 1..Len(data.tasks) |->
                   StringifyTask(data.tasks[Len(data.tasks) + 1 - i])],
     lastUpdated |-> data.lastUpdated]

Stringify(data) ==
    [kind |-> "valid", version |-> data.version,
     tasks |-> [i \in 1..Len(data.tasks) |-> StringifyTask(data.tasks[i])],
     lastUpdated |-> data.lastUpdated]

\* JSON.parse(raw) as TasksFile: the cast checks nothing, so the caller gets
\* whatever value the text denotes. For a text that Stringify wrote it is the
\* store; for null it is null; for [] and {} it is a value none of whose store
\* properties is there.
JsNull == [version |-> NullMark, tasks |-> NullMark, lastUpdated |-> NullMark]
NoProperties ==
    [version |-> UndefinedMark, tasks |-> UndefinedMark, lastUpdated |-> UndefinedMark]

Parse(f) ==
    IF f.kind = "null" THEN JsNull
    ELSE IF f.kind \in {"array", "object"} THEN NoProperties
    ELSE [version |-> f.version, tasks |-> f.tasks, lastUpdated |-> f.lastUpdated]

\* data.tasks.push / find / findIndex / filter raises a TypeError when data is
\* null (the read of data.tasks raises) or data.tasks is undefined (the call).
TasksRaise(data) == IsMark(data.tasks)

\* data is null: every read data.p raises.
IsNull(data) == IsMark(data.tasks) /\ data.tasks[1].js = "null"

\* loadTasks without the try/catch around the parse: an unparsable file is
\* not replaced by a store stamped now.
loadTasksNoCatch(f, t) ==
    IF f.kind = "missing" THEN [version |-> 1, tasks |-> <<>>, lastUpdated |-> t]
    ELSE [version |-> f.version, tasks |-> f.tasks, lastUpdated |-> f.lastUpdated]

\* loadTasks: the empty store when the file is missing or unparsable.
loadTasks(f, t) ==
    IF f.kind = "missing" THEN EmptyStore(t)
    ELSE IF f.kind = "corrupt" THEN EmptyStore(t)
    ELSE Parse(f)

\* saveTasks: stamps lastUpdated and overwrites the whole file.
saveTasks(data, t) == Stringify([data EXCEPT !.lastUpdated = t])

\* Array.prototype.findIndex / find on the id: the first match, 0 for none.
RECURSIVE FindFrom(_, _, _)
FindFrom(tasks, id, i) ==
    IF i > Len(tasks) THEN 0
    ELSE IF tasks[i].id = id THEN i
    ELSE FindFrom(tasks, id, i + 1)

FindIndex(tasks, id) == FindFrom(tasks, id, 1)

\* Array.prototype.splice(idx, 1)
Splice(tasks, idx) ==
    [i \in 1..(Len(tasks) - 1) |-> IF i < idx THEN tasks[i] ELSE tasks[i + 1]]

\* The object addTask builds.
NewTask(id, title, description, t) ==
    [id |-> id, title |-> title, description |-> description,
     status |-> "pending", createdAt |-> t,
     completedAt |-> Absent, snoozedUntil |-> Absent]

\* True when some task of the sequence has the id.
HasId(tasks, id) == \E i \in 1..Len(tasks) : tasks[i].id = id

\* ---------------------------------------------------------- operations
\* Each operation of the store is a synchronous function: it runs to its end
\* before any other code of the process does. XFile is the file it leaves,
\* XRet the value it returns, for the file f it finds and the time t.

\* addTask that puts the new task in front (unshift where the code has push).
addTaskFileInFront(f, id, title, description, t) ==
    LET data == loadTasks(f, t)
        task == NewTask(id, title, description, t)
    IN  saveTasks([data EXCEPT !.tasks = <<task>> \o data.tasks], t)

addTaskFile(f, id, title, description, t) ==
    LET data == loadTasks(f, t)
        task == NewTask(id, title, description, t)
    IN  IF TasksRaise(data) THEN f
        ELSE saveTasks([data EXCEPT !.tasks = Append(data.tasks, task)], t)

addTaskRet(f, id, title, description, t) ==
    IF TasksRaise(loadTasks(f, t)) THEN TypeError
    ELSE <<NewTask(id, title, description, t)>>

\* completeTask that forgets the completion stamp.
CompleteChangeNoStamp(task, t) == [task EXCEPT !.status = "done"]

CompleteChange(task, t) == [task EXCEPT !.status = "done", !.completedAt = Some(t)]

completeTaskFile(f, id, t) ==
    LET data == loadTasks(f, t)
        idx == FindIndex(data.tasks, id)
    IN  IF TasksRaise(data) THEN f
        ELSE IF idx = 0 THEN f
        ELSE saveTasks([data EXCEPT !.tasks[idx] = CompleteChange(data.tasks[idx], t)], t)

completeTaskRet(f, id, t) ==
    LET data == loadTasks(f, t)
        idx == FindIndex(data.tasks, id)
    IN  IF TasksRaise(data) THEN TypeError
        ELSE IF idx = 0 THEN Null ELSE <<CompleteChange(data.tasks[idx], t)>>

\* snoozeTask that forgets the date.
SnoozeChangeNoDate(task, date) == [task EXCEPT !.status = "snoozed"]

SnoozeChange(task, date) == [task EXCEPT !.status = "snoozed", !.snoozedUntil = Some(date)]

snoozeTaskFile(f, id, date, t) ==
    LET data == loadTasks(f, t)
        idx == FindIndex(data.tasks, id)
    IN  IF TasksRaise(data) THEN f
        ELSE IF idx = 0 THEN f
        ELSE saveTasks([data EXCEPT !.tasks[idx] = SnoozeChange(data.tasks[idx], date)], t)

snoozeTaskRet(f, id, date, t) ==
    LET data == loadTasks(f, t)
        idx == FindIndex(data.tasks, id)
    IN  IF TasksRaise(data) THEN TypeError
        ELSE IF idx = 0 THEN Null ELSE <<SnoozeChange(data.tasks[idx], date)>>

\* startTask that clears the fields of the statuses the task leaves.
StartChangeClears(task) ==
    [task EXCEPT !.status = "in_progress", !.completedAt = Absent, !.snoozedUntil = Absent]

\* startTask that puts the task back to pending.
StartChangeReopens(task) == [task EXCEPT !.status = "pending"]

StartChange(task) == [task EXCEPT !.status = "in_progress"]

\* startTask that saves before it looks at the result of the lookup.
startTaskFileSavesAlways(f, id, t) ==
    LET data == loadTasks(f, t)
        idx == FindIndex(data.tasks, id)
    IN  IF idx = 0 THEN saveTasks(data, t)
        ELSE saveTasks([data EXCEPT !.tasks[idx] = StartChange(data.tasks[idx])], t)

startTaskFile(f, id, t) ==
    LET data == loadTasks(f, t)
        idx == FindIndex(data.tasks, id)
    IN  IF TasksRaise(data) THEN f
        ELSE IF idx = 0 THEN f
        ELSE saveTasks([data EXCEPT !.tasks[idx] = StartChange(data.tasks[idx])], t)

startTaskRet(f, id, t) ==
    LET data == loadTasks(f, t)
        idx == FindIndex(data.tasks, id)
    IN  IF TasksRaise(data) THEN TypeError
        ELSE IF idx = 0 THEN Null ELSE <<StartChange(data.tasks[idx])>>

\* deleteTask that removes the last task, whatever its id.
DeleteResultLast(tasks, id) == Splice(tasks, Len(tasks))

\* deleteTask written as tasks.filter(t => t.id !== id).
DeleteResultFilter(tasks, id) == SelectSeq(tasks, LAMBDA t : t.id # id)

\* What deleteTask leaves of the loaded sequence when the id is found.
DeleteResult(tasks, id) == Splice(tasks, FindIndex(tasks, id))

deleteTaskFile(f, id, t) ==
    LET data == loadTasks(f, t)
        idx == FindIndex(data.tasks, id)
    IN  IF TasksRaise(data) THEN f
        ELSE IF idx = 0 THEN f
        ELSE saveTasks([data EXCEPT !.tasks = DeleteResult(data.tasks, id)], t)

deleteTaskRet(f, id, t) ==
    LET data == loadTasks(f, t)
    IN  IF TasksRaise(data) THEN TypeError ELSE <<FindIndex(data.tasks, id) # 0>>

\* ------------------------------------------------------------ reconciler
Statuses == {"pending", "in_progress", "done", "snoozed"}

\* The task lists a view can find: what the file holds when a refresh reads
\* it, and what the remote answers. A stored task of the file and a task of
\* the remote under the same id differ in title and status.
ViewTask(id, title, status) ==
    [id |-> id, title |-> title, description |-> Absent, status |-> status,
     createdAt |-> 1,
     completedAt |-> IF status = "done" THEN Some(1) ELSE Absent,
     snoozedUntil |-> IF status = "snoozed" THEN Some(1) ELSE Absent]

LocalPool ==
    {ViewTask("a", "t", "pending"), ViewTask("b", "t", "pending"),
     ViewTask("b", "t", "snoozed")}
RemotePool == {ViewTask("b", "r", "done"), ViewTask("c", "r", "in_progress")}

SeqsUpTo(S, n) == UNION {[1..k -> S] : k \in 0..n}

ViewFiles ==
    {MissingFile} \cup
    {Stringify([version |-> 1, tasks |-> ts, lastUpdated |-> 1]) :
        ts \in SeqsUpTo(LocalPool, MaxTasks)}

\* data.tasks of the store loadTasksFromRemote resolves with: the tasks of the
\* response, none after an error, a timeout or an unparsable body.
RemoteLists == SeqsUpTo(RemotePool, MaxRemote)

\* loadTasks(dir).tasks as refresh, pollRemote and loadDataSync read it.
LocalTasks(f, t) == loadTasks(f, t).tasks

\* remoteData.tasks.map(t => ({ ...t, _remote: true }))
TagRemote(t) ==
    [id |-> t.id, title |-> t.title, description |-> t.description,
     status |-> t.status, createdAt |-> t.createdAt,
     completedAt |-> t.completedAt, snoozedUntil |-> t.snoozedUntil,
     remote |-> TRUE]

TagAll(remoteTasks) == [i \in 1..Len(remoteTasks) |-> TagRemote(remoteTasks[i])]

\* new Set(localTasks.map(t => t.id))
LocalIds(localTasks) == {localTasks[i].id : i \in 1..Len(localTasks)}

\* A merge that lets the remote copy through whatever the local list holds.
MergeNoFilter(localTasks, remoteTasks) == localTasks \o remoteTasks

\* [...localTasks, ...remoteTasks.filter(t => !localIds.has(t.id))]
Merge(localTasks, remoteTasks) ==
    localTasks \o SelectSeq(remoteTasks, LAMBDA t : t.id \notin LocalIds(localTasks))

\* ----------------------------------------------------------- fingerprint
\* A JS string is the sequence of its UTF-16 code units.
Colon == 58
Bar == 124

Chars(s) ==
    CASE s = "a" -> <<97>>
      [] s = "b" -> <<98>>
      [] s = "c" -> <<99>>
      [] s = "pending" -> <<112, 101, 110, 100, 105, 110, 103>>
      [] s = "in_progress" -> <<105, 110, 95, 112, 114, 111, 103, 114, 101, 115, 115>>
      [] s = "done" -> <<100, 111, 110, 101>>
      [] s = "snoozed" -> <<115, 110, 111, 111, 122, 101, 100>>

\* A fingerprint entry that leaves the status out.
PairStringIdOnly(t) == Chars(t.id)

\* `${t.id}:${t.status}`
PairString(t) == Chars(t.id) \o <<Colon>> \o Chars(t.status)

\* The order Array.prototype.sort() puts strings in: by code units, a proper
\* prefix first.
RECURSIVE LessFrom(_, _, _)
LessFrom(x, y, i) ==
    IF i > Len(y) THEN FALSE
    ELSE IF i > Len(x) THEN TRUE
    ELSE IF x[i] < y[i] THEN TRUE
    ELSE IF x[i] > y[i] THEN FALSE
    ELSE LessFrom(x, y, i + 1)

StringLess(x, y) == LessFrom(x, y, 1)

\* x put into the sorted sequence, after the strings that are not greater.
RECURSIVE InsertSorted(_, _)
InsertSorted(sorted, x) ==
    IF sorted = <<>> THEN <<x>>
    ELSE IF StringLess(x, Head(sorted)) THEN <<x>> \o sorted
    ELSE <<Head(sorted)>> \o InsertSorted(Tail(sorted), x)

\* A sort that leaves the strings in the order they came in.
SortStringsNoOp(strs) == strs

RECURSIVE SortStrings(_)
SortStrings(strs) ==
    IF strs = <<>> THEN <<>>
    ELSE InsertSorted(SortStrings(SubSeq(strs, 1, Len(strs) - 1)), strs[Len(strs)])

\* Array.prototype.join("|")
RECURSIVE Join(_)
Join(strs) ==
    IF strs = <<>> THEN <<>>
    ELSE IF Len(strs) = 1 THEN strs[1]
    ELSE strs[1] \o <<Bar>> \o Join(Tail(strs))

tasksFingerprint(tasks) ==
    Join(SortStrings([i \in 1..Len(tasks) |-> PairString(tasks[i])]))

\* --------------------------------------------------------------- getTasks
\* Dates and timestamps are strings, and getTasks compares them as strings.
\* The date argument d of the model stands for the text "2026-01-0d", the
\* date 0 for the empty string; the instant t for the ISO timestamp of
\* midnight UTC of day t, which is what toISOString() would give then.
DateText(d) == IF d = 0 THEN <<>> ELSE <<50, 48, 50, 54, 45, 48, 49, 45, 48, 48 + d>>

IsoText(t) == DateText(t) \o <<84, 48, 48, 58, 48, 48, 58, 48, 48, 46, 48, 48, 48, 90>>

\* x <= y on strings
StringLeq(x, y) == ~StringLess(y, x)

\* String.prototype.startsWith
StartsWith(s, prefix) == Len(prefix) <= Len(s) /\ SubSeq(s, 1, Len(prefix)) = prefix

\* The filter argument: each property absent or given.
NoFilter == [status |-> Absent, date |-> Absent]

\* A filter that leaves the tasks of the file as they are.
StatusFilterNone(tasks, filter) == tasks

StatusFilter(tasks, filter) ==
    IF filter.status # Absent
    THEN SelectSeq(tasks, LAMBDA t : t.status = filter.status[1])
    ELSE tasks

\* filter?.date is truthy: given and not the empty string.
HasDate(filter) == filter.date # Absent /\ DateText(filter.date[1]) # <<>>

\* t.snoozedUntil is truthy
HasSnoozedUntil(t) == t.snoozedUntil # Absent /\ DateText(t.snoozedUntil[1]) # <<>>

\* A date filter that compares with < where the code has <=.
DateMatchesStrict(t, d) ==
    IF t.status = "snoozed" /\ HasSnoozedUntil(t)
    THEN StringLess(DateText(t.snoozedUntil[1]), DateText(d))
    ELSE StartsWith(IsoText(t.createdAt), DateText(d)) \/ t.status # "snoozed"

\* The callback of the date filter.
DateMatches(t, d) ==
    IF t.status = "snoozed" /\ HasSnoozedUntil(t)
    THEN StringLeq(DateText(t.snoozedUntil[1]), DateText(d))
    ELSE StartsWith(IsoText(t.createdAt), DateText(d)) \/ t.status # "snoozed"

DateFilter(tasks, filter) ==
    IF HasDate(filter)
    THEN SelectSeq(tasks, LAMBDA t : DateMatches(t, filter.date[1]))
    ELSE tasks

\* getTasks(dir, filter): the value returned, or the exception raised. With
\* no filter data.tasks is returned as it is, undefined included.
getTasksRet(f, filter, t) ==
    LET data == loadTasks(f, t)
    IN  IF IsNull(data) THEN TypeError
        ELSE IF TasksRaise(data) /\ (filter.status # Absent \/ HasDate(filter))
             THEN TypeError
        ELSE <<DateFilter(StatusFilter(data.tasks, filter), filter)>>

\* ---------------------------------------------------- loadTasksFromRemote
\* The call under observation: the state of its HTTP request, what the
\* server answers (status and body, once the response has come), how many
\* chunks of the body have arrived, and the promise the caller holds
\* (settled: the word, and for a resolved one the store).
NoCall ==
    [phase |-> "idle", status |-> 0, body |-> <<>>, chunks |-> 0,
     promise |-> "none", store |-> <<>>]

\* The statuses a server answers with: one 2xx and one that is not.
RemoteStatuses == {200, 500}

\* The bodies a server sends: a JSON object with a tasks array, a JSON object
\* without one, the JSON text null, and a text that is no JSON.
RemoteBodies ==
    {[kind |-> "tasks", tasks |-> ts] : ts \in RemoteLists} \cup
    {[kind |-> k, tasks |-> <<>>] : k \in {"notasks", "null", "text"}}

\* The try block of the "end" handler: JSON.parse(body), then data.tasks || [].
\* A text that is no JSON and the text null raise inside the try and give the
\* tasks of the catch block.
ParsedTasks(body) == IF body.kind = "tasks" THEN body.tasks ELSE <<>>

\* resolve(store): settles the promise unless it is settled already.
Resolve(r, tasks, t) ==
    IF r.promise = "pending"
    THEN [r EXCEPT !.promise = "resolved",
                   !.store = <<[version |-> 1, tasks |-> tasks, lastUpdated |-> t]>>]
    ELSE r

\* loadTasksFromRemote(serverUrl) up to the return of the promise. The
\* executor calls mod.get(url, ...), which raises at once when the url is no
\* http(s) URL; an exception of the executor rejects the promise, and the
\* try/catch around "return new Promise" does not see the rejection of a
\* promise it returns without awaiting it.
RemoteCall(urlValid) ==
    /\ remote.phase = "idle"
    /\ remote.promise = "none"
    /\ remote' = IF urlValid
                 THEN [remote EXCEPT !.phase = "sent", !.promise = "pending"]
                 ELSE [remote EXCEPT !.phase = "over", !.promise = "rejected"]
    /\ UNCHANGED <<storeVars, treeVars, sidebarVars, otherVars>>

\* The callback of mod.get: the response has come, its status is not looked
\* at, the data and end handlers are set.
RemoteResponse(status, body) ==
    /\ remote.phase = "sent"
    /\ remote' = [remote EXCEPT !.phase = "receiving", !.status = status, !.body = <<body>>]
    /\ UNCHANGED <<storeVars, treeVars, sidebarVars, otherVars>>

\* res.on("data"): a chunk is added to the body.
RemoteData ==
    /\ remote.phase = "receiving"
    /\ remote.chunks < MaxChunks
    /\ remote' = [remote EXCEPT !.chunks = remote.chunks + 1]
    /\ UNCHANGED <<storeVars, treeVars, sidebarVars, otherVars>>

\* res.on("end"): the whole body has come.
RemoteEnd ==
    /\ remote.phase = "receiving"
    /\ remote.chunks = MaxChunks
    /\ remote' = Resolve([remote EXCEPT !.phase = "over"], ParsedTasks(remote.body[1]), now)
    /\ UNCHANGED <<storeVars, treeVars, sidebarVars, otherVars>>

\* req.on("error"): the request fails before a response has come.
RemoteError ==
    /\ remote.phase = "sent"
    /\ remote' = Resolve([remote EXCEPT !.phase = "over"], <<>>, now)
    /\ UNCHANGED <<storeVars, treeVars, sidebarVars, otherVars>>

\* req.on("timeout"): the socket has been idle for the timeout, before the
\* response or in the middle of its body; the request is destroyed.
RemoteTimeout ==
    /\ remote.phase \in {"sent", "receiving"}
    /\ remote' = Resolve([remote EXCEPT !.phase = "over"], <<>>, now)
    /\ UNCHANGED <<storeVars, treeVars, sidebarVars, otherVars>>

\* The connection is closed in the middle of the body: the response emits
\* "aborted" and "error", for which no handler is set, and never "end".
RemoteAborted ==
    /\ remote.phase = "receiving"
    /\ remote.chunks < MaxChunks
    /\ remote' = [remote EXCEPT !.phase = "over"]
    /\ UNCHANGED <<storeVars, treeVars, sidebarVars, otherVars>>

\* ------------------------------------------------------ TaskTreeProvider
NoPoll == <<>>

Remove(seq, i) == [j \in 1..(Len(seq) - 1) |-> IF j < i THEN seq[j] ELSE seq[j + 1]]

\* The parts of the extension a specification leaves out are not in play.
OthersIdle ==
    /\ writers = <<>>
    /\ deletes = <<>>
    /\ panel = <<>>
    /\ watch = <<>>

ViewsIdle ==
    /\ treeTasks = LocalTasks(file, now)
    /\ lastLocal = LocalTasks(file, now)
    /\ lastFingerprint = tasksFingerprint(LocalTasks(file, now))
    /\ polls = <<>>
    /\ lastPoll = NoPoll
    /\ fetches = <<>>
    /\ posted = <<>>


\* ------------------------------------------------------------- actions
InitStore ==
    /\ file \in {MissingFile, CorruptFile, Stringify(EmptyStore(1))}
    /\ clock = 1
    /\ op = "init"
    /\ arg = <<>>
    /\ ret = Null

Init ==
    /\ InitStore
    /\ treeUrl = TRUE
    /\ sidebarUrl = TRUE
    /\ ViewsIdle
    /\ remote = NoCall
    /\ OthersIdle

\* Time passes between two operations.
Tick ==
    /\ clock < MaxClock
    /\ clock' = clock + 1
    /\ op' = "tick"
    /\ arg' = <<>>
    /\ ret' = Null
    /\ UNCHANGED <<file, treeVars, sidebarVars, remote, otherVars>>

addTask(id, title, description) ==
    /\ Len(loadTasks(file, now).tasks) < MaxTasks
    /\ file' = addTaskFile(file, id, title, description, now)
    /\ op' = "addTask"
    /\ arg' = <<id, title, description>>
    /\ ret' = addTaskRet(file, id, title, description, now)
    /\ UNCHANGED <<clock, treeVars, sidebarVars, remote, otherVars>>

completeTask(id) ==
    /\ file' = completeTaskFile(file, id, now)
    /\ op' = "completeTask"
    /\ arg' = <<id>>
    /\ ret' = completeTaskRet(file, id, now)
    /\ UNCHANGED <<clock, treeVars, sidebarVars, remote, otherVars>>

snoozeTask(id, date) ==
    /\ file' = snoozeTaskFile(file, id, date, now)
    /\ op' = "snoozeTask"
    /\ arg' = <<id>>
    /\ ret' = snoozeTaskRet(file, id, date, now)
    /\ UNCHANGED <<clock, treeVars, sidebarVars, remote, otherVars>>

startTask(id) ==
    /\ file' = startTaskFile(file, id, now)
    /\ op' = "startTask"
    /\ arg' = <<id>>
    /\ ret' = startTaskRet(file, id, now)
    /\ UNCHANGED <<clock, treeVars, sidebarVars, remote, otherVars>>

deleteTask(id) ==
    /\ file' = deleteTaskFile(file, id, now)
    /\ op' = "deleteTask"
    /\ arg' = <<id>>
    /\ ret' = deleteTaskRet(file, id, now)
    /\ UNCHANGED <<clock, treeVars, sidebarVars, remote, otherVars>>

\* A caller reads the store: loadTasks(dir).
loadTasksCall ==
    /\ op' = "loadTasks"
    /\ arg' = <<>>
    /\ ret' = <<loadTasks(file, now)>>
    /\ UNCHANGED <<file, clock, treeVars, sidebarVars, remote, otherVars>>

\* saveTasks(dir, loadTasks(dir))
RoundTrip ==
    /\ file' = saveTasks(loadTasks(file, now), now)
    /\ op' = "roundTrip"
    /\ arg' = <<>>
    /\ ret' = Null
    /\ UNCHANGED <<clock, treeVars, sidebarVars, remote, otherVars>>

\* A caller queries the store: getTasks(dir, filter).
getTasksCall(filter) ==
    /\ op' = "getTasks"
    /\ arg' = <<filter>>
    /\ ret' = getTasksRet(file, filter, now)
    /\ UNCHANGED <<file, clock, treeVars, sidebarVars, remote, otherVars>>

Next ==
    \/ Tick
    \/ \E id \in Ids, title \in Titles, d \in Descriptions : addTask(id, title, d)
    \/ \E id \in Ids : startTask(id)
    \/ \E id \in Ids : completeTask(id)
    \/ \E id \in Ids, date \in Dates : snoozeTask(id, date)
    \/ \E id \in Ids : deleteTask(id)
    \/ loadTasksCall
    \/ getTasksCall(NoFilter)
    \/ RoundTrip

Spec == Init /\ [][Next]_vars

\* ------------------------------------------- a store file of another shape
\* The project directory holds a .tasks.json that is valid JSON but no store,
\* and the callers use the store as they do on any directory. No view is
\* attached.
Filters ==
    [status : {Absent} \cup {Some(s) : s \in Statuses},
     date : {Absent} \cup {Some(d) : d \in Dates}]

InitShape ==
    /\ file \in ShapelessFiles
    /\ clock = 1
    /\ op = "init"
    /\ arg = <<>>
    /\ ret = Null
    /\ treeUrl = TRUE
    /\ sidebarUrl = TRUE
    /\ treeTasks = <<>>
    /\ lastFingerprint = <<>>
    /\ polls = <<>>
    /\ lastPoll = NoPoll
    /\ lastLocal = <<>>
    /\ fetches = <<>>
    /\ posted = <<>>
    /\ remote = NoCall
    /\ OthersIdle

NextShape ==
    \/ Tick
    \/ \E filter \in Filters : getTasksCall(filter)
    \/ \E id \in Ids, title \in Titles, d \in Descriptions : addTask(id, title, d)
    \/ \E id \in Ids : startTask(id)
    \/ \E id \in Ids : completeTask(id)
    \/ \E id \in Ids, date \in Dates : snoozeTask(id, date)
    \/ \E id \in Ids : deleteTask(id)
    \/ loadTasksCall

SpecShape == InitShape /\ [][NextShape]_vars

\* -------------------------------------------- loadTasksFromRemote calls
\* One call of loadTasksFromRemote, from before it is made.
InitRemote ==
    /\ file = MissingFile
    /\ clock = 1
    /\ op = "init"
    /\ arg = <<>>
    /\ ret = Null
    /\ treeUrl = TRUE
    /\ sidebarUrl = TRUE
    /\ ViewsIdle
    /\ remote = NoCall
    /\ OthersIdle

NextRemote ==
    \/ Tick
    \/ \E urlValid \in BOOLEAN : RemoteCall(urlValid)
    \/ \E status \in RemoteStatuses, body \in RemoteBodies : RemoteResponse(status, body)
    \/ RemoteData
    \/ RemoteEnd
    \/ RemoteError
    \/ RemoteTimeout
    \/ RemoteAborted

SpecRemote == InitRemote /\ [][NextRemote]_vars

\* ------------------------------------------- processes sharing the file
\* Store operations called in the processes that have the project open: two
\* calls in the extension host of the editor (one JavaScript thread) and one
\* in another process (a second window, or the automation server).
Calls == {1, 2, 3}
ProcessOf(c) == IF c = 3 THEN "server" ELSE "editor"

\* What the calls do, on a store that holds task "a" or nothing.
CallOps ==
    {[name |-> "addTask", id |-> "b"], [name |-> "completeTask", id |-> "a"],
     [name |-> "deleteTask", id |-> "a"]}

WriterFiles ==
    {Stringify([version |-> 1, tasks |-> ts, lastUpdated |-> 1]) :
        ts \in {<<>>, <<ViewTask("a", "t", "pending")>>}}

\* The file an operation would leave if it ran alone on the file f.
ApplyOp(o, f, t) ==
    CASE o.name = "addTask" -> addTaskFile(f, o.id, "t", Undefined, t)
      [] o.name = "completeTask" -> completeTaskFile(f, o.id, t)
      [] o.name = "deleteTask" -> deleteTaskFile(f, o.id, t)

\* True when the operation reaches its saveTasks call: addTask always, the
\* others when they find the id.
Saves(o, f, t) == o.name = "addTask" \/ HasId(loadTasks(f, t).tasks, o.id)

\* The length of the text JSON.stringify(data, null, 2) gives, which grows
\* with every task and every property of a task.
RECURSIVE TasksSize(_)
TasksSize(tasks) ==
    IF tasks = <<>> THEN 0
    ELSE 100 + Len(Chars(Head(tasks).status))
             + (IF Head(tasks).description # Absent THEN 20 ELSE 0)
             + (IF Head(tasks).completedAt # Absent THEN 45 ELSE 0)
             + (IF Head(tasks).snoozedUntil # Absent THEN 35 ELSE 0)
             + TasksSize(Tail(tasks))

TextSize(f) == 80 + TasksSize(f.tasks)

IdleCall == [pc |-> "idle", op |-> <<>>, text |-> <<>>, old |-> <<>>, overlapped |-> {}]

\* No call has begun, nobody has read, the file has its initial text.
WritersIdle(f) ==
    [calls |-> [c \in Calls |-> IdleCall], size |-> TextSize(f), initial |-> f,
     seen |-> <<>>, lastWrite |-> 0]

\* A process whose calls could pause between their steps.
BusyNever(proc) == FALSE

\* A call of the process is between its loadTasks and the end of its
\* saveTasks. The operations are synchronous functions, so no other code of
\* that process runs until it has returned.
Busy(proc) ==
    \E c \in Calls : ProcessOf(c) = proc /\ writers.calls[c].pc \in {"loaded", "writing"}

\* The call begins: loadTasks, then the change in memory. An operation that
\* does not find its id returns here. overlapped keeps the calls of other
\* processes that have loaded and not yet finished their save.
CallLoad(c, o) ==
    /\ writers.calls[c].pc = "idle"
    /\ ~Busy(ProcessOf(c))
    /\ writers' =
         [writers EXCEPT !.calls[c] =
            [pc |-> IF Saves(o, file, now) THEN "loaded" ELSE "done",
             op |-> <<o>>,
             text |-> IF Saves(o, file, now) THEN <<ApplyOp(o, file, now)>> ELSE <<>>,
             old |-> <<>>,
             overlapped |-> {d \in Calls : /\ ProcessOf(d) # ProcessOf(c)
                                            /\ writers.calls[d].pc \in {"loaded", "writing"}}]]
    /\ UNCHANGED <<storeVars, treeVars, sidebarVars, remote, deletes, panel, watch>>

\* fs.writeFileSync, first half: the file is opened for writing, which
\* empties it. The empty text is one JSON.parse rejects.
CallOpen(c) ==
    /\ writers.calls[c].pc = "loaded"
    /\ file' = CorruptFile
    /\ writers' = [writers EXCEPT !.calls[c].pc = "writing",
                                  !.calls[c].old = <<loadTasks(file, now).tasks>>,
                                  !.size = 0]
    /\ UNCHANGED <<clock, op, arg, ret, treeVars, sidebarVars, remote, deletes, panel, watch>>

\* fs.writeFileSync, second half: the text is written from the start of the
\* file. What another writer has written beyond its length stays in the
\* file, and the whole is then no JSON.
CallWrite(c) ==
    LET text == writers.calls[c].text[1]
    IN  /\ writers.calls[c].pc = "writing"
        /\ file' = IF TextSize(text) >= writers.size THEN text ELSE CorruptFile
        /\ writers' = [writers EXCEPT !.calls[c].pc = "done",
                                      !.size = IF TextSize(text) >= writers.size
                                               THEN TextSize(text) ELSE writers.size,
                                      !.lastWrite = c]
        /\ UNCHANGED <<clock, op, arg, ret, treeVars, sidebarVars, remote, deletes, panel, watch>>

\* loadTasks called in a process that has no operation under way. What it
\* returns is kept with the saves that are under way in other processes: the
\* tasks their file held before and the tasks they are writing.
ProcessLoad(proc) ==
    /\ ~Busy(proc)
    /\ writers' =
         [writers EXCEPT !.seen =
            <<[proc |-> proc, tasks |-> loadTasks(file, now).tasks,
               saving |-> {[old |-> writers.calls[d].old[1], new |-> writers.calls[d].text[1].tasks] :
                             d \in {d \in Calls : /\ ProcessOf(d) # proc
                                                  /\ writers.calls[d].pc = "writing"}}]>>]
    /\ UNCHANGED <<storeVars, treeVars, sidebarVars, remote, deletes, panel, watch>>

InitWriters ==
    /\ file \in WriterFiles
    /\ clock = 1
    /\ op = "init"
    /\ arg = <<>>
    /\ ret = Null
    /\ treeUrl = TRUE
    /\ sidebarUrl = TRUE
    /\ ViewsIdle
    /\ remote = NoCall
    /\ writers = WritersIdle(file)
    /\ deletes = <<>>
    /\ panel = <<>>
    /\ watch = <<>>

NextWriters ==
    \/ \E c \in Calls, o \in CallOps : CallLoad(c, o)
    \/ \E c \in Calls : CallOpen(c)
    \/ \E c \in Calls : CallWrite(c)
    \/ \E proc \in {"editor", "server"} : ProcessLoad(proc)

SpecWriters == InitWriters /\ [][NextWriters]_vars

\* ---------------------------------------------------------------- addTask
\* The titles and descriptions a caller can give to addTask: the function
\* takes any title and an optional description.
AddTitles == {"", "t", "u"}
AddDescriptions == {Undefined, Some("d")}

\* addTask is called on the stores that ViewFiles lists.
InitAdd ==
    /\ file \in ViewFiles
    /\ clock = 1
    /\ op = "init"
    /\ arg = <<>>
    /\ ret = Null
    /\ treeUrl = TRUE
    /\ sidebarUrl = TRUE
    /\ ViewsIdle
    /\ remote = NoCall
    /\ OthersIdle

NextAdd ==
    \/ Tick
    \/ \E id \in Ids, title \in AddTitles, d \in AddDescriptions : addTask(id, title, d)

SpecAdd == InitAdd /\ [][NextAdd]_vars

\* ------------------------------------------------------- getTasks queries
\* The dates a caller gives to snoozeTask and to getTasks: the empty string
\* and the days up to one past the last snooze date of the store model.
QueryDates == 0..(MaxDate + 1)

\* Tasks as the store operations leave them: added at instant createdAt, then
\* taken through start, complete and snooze calls in some order.
QueryTask(id, status, createdAt, completedAt, snoozedUntil) ==
    [id |-> id, title |-> "t", description |-> Absent, status |-> status,
     createdAt |-> createdAt, completedAt |-> completedAt,
     snoozedUntil |-> snoozedUntil]

QueryPool ==
    {QueryTask("a", "pending", 1, Absent, Absent),
     QueryTask("b", "pending", 2, Absent, Absent),
     QueryTask("c", "done", 1, Some(1), Absent),
     QueryTask("d", "in_progress", 1, Absent, Some(MaxDate + 1)),
     QueryTask("e", "snoozed", 1, Absent, Some(MaxDate + 1)),
     QueryTask("f", "snoozed", 2, Absent, Some(1)),
     QueryTask("g", "snoozed", 1, Absent, Some(0))}

QueryFiles ==
    {Stringify([version |-> 1, tasks |-> ts, lastUpdated |-> 1]) :
        ts \in SeqsUpTo(QueryPool, MaxQueryTasks)}

QueryFilters ==
    [status : {Absent} \cup {Some(s) : s \in Statuses},
     date : {Absent} \cup {Some(d) : d \in QueryDates}]

InitQuery ==
    /\ file \in QueryFiles
    /\ clock = 1
    /\ op = "init"
    /\ arg = <<>>
    /\ ret = Null
    /\ treeUrl = TRUE
    /\ sidebarUrl = TRUE
    /\ treeTasks = <<>>
    /\ lastFingerprint = <<>>
    /\ polls = <<>>
    /\ lastPoll = NoPoll
    /\ lastLocal = <<>>
    /\ fetches = <<>>
    /\ posted = <<>>
    /\ remote = NoCall
    /\ OthersIdle

NextQuery == \E filter \in QueryFilters : getTasksCall(filter)

SpecQuery == InitQuery /\ [][NextQuery]_vars


\* ---------------------------------------------------------- view actions
\* The constructor has run loadDataSync on the file it found.
InitTree ==
    /\ file \in ViewFiles
    /\ clock = 1
    /\ op = "init"
    /\ arg = <<>>
    /\ ret = Null
    /\ treeUrl \in BOOLEAN
    /\ sidebarUrl = TRUE
    /\ ViewsIdle
    /\ remote = NoCall
    /\ OthersIdle

\* setServerUrl(url): a URL, or undefined.
TreeSetServerUrl(u) ==
    /\ treeUrl' = u
    /\ UNCHANGED <<storeVars, treeTasks, lastFingerprint, polls, lastPoll, lastLocal,
                   sidebarVars, remote, otherVars>>

\* A refresh that replaces the list and keeps the old fingerprint.
TreeRefreshKeepsFingerprint ==
    /\ treeTasks' = LocalTasks(file, now)
    /\ lastLocal' = LocalTasks(file, now)
    /\ UNCHANGED <<storeVars, treeUrl, lastFingerprint, polls, lastPoll, sidebarVars,
                   remote, otherVars>>

\* refresh(): loadDataSync, then the change event.
TreeRefresh ==
    /\ treeTasks' = LocalTasks(file, now)
    /\ lastFingerprint' = tasksFingerprint(LocalTasks(file, now))
    /\ lastLocal' = LocalTasks(file, now)
    /\ UNCHANGED <<storeVars, treeUrl, polls, lastPoll, sidebarVars, remote, otherVars>>

\* pollRemote() up to its await: the local list is read and, with a server
\* URL set, the request goes out. Without one pollRemote returns here.
PollStart ==
    /\ treeUrl
    /\ Len(polls) < MaxInFlight
    /\ polls' = Append(polls, LocalTasks(file, now))
    /\ lastLocal' = LocalTasks(file, now)
    /\ UNCHANGED <<storeVars, treeUrl, treeTasks, lastFingerprint, lastPoll, sidebarVars,
                   remote, otherVars>>

\* A poll that replaces the list whatever the fingerprint is.
PollCompleteAlways(i, remoteTasks) ==
    LET localTasks == polls[i]
        merged == Merge(localTasks, TagAll(remoteTasks))
    IN  /\ polls' = Remove(polls, i)
        /\ lastPoll' = <<[local |-> localTasks, remote |-> remoteTasks, merged |-> merged,
                          fired |-> 1]>>
        /\ treeTasks' = merged
        /\ lastFingerprint' = tasksFingerprint(merged)
        /\ UNCHANGED <<storeVars, treeUrl, lastLocal, sidebarVars, remote, otherVars>>

\* pollRemote() after its await: loadTasksFromRemote has resolved with
\* remoteTasks. The view changes only when the fingerprint does. The poll is
\* kept with the number of change events it fired.
PollComplete(i, remoteTasks) ==
    LET localTasks == polls[i]
        merged == Merge(localTasks, TagAll(remoteTasks))
        newFingerprint == tasksFingerprint(merged)
    IN  /\ polls' = Remove(polls, i)
        /\ lastPoll' = <<[local |-> localTasks, remote |-> remoteTasks, merged |-> merged,
                          fired |-> IF newFingerprint # lastFingerprint THEN 1 ELSE 0]>>
        /\ IF newFingerprint # lastFingerprint
           THEN /\ treeTasks' = merged
                /\ lastFingerprint' = newFingerprint
           ELSE UNCHANGED <<treeTasks, lastFingerprint>>
        /\ UNCHANGED <<storeVars, treeUrl, lastLocal, sidebarVars, remote, otherVars>>

NextTree ==
    \/ \E u \in BOOLEAN : TreeSetServerUrl(u)
    \/ TreeRefresh
    \/ PollStart
    \/ \E i \in 1..Len(polls), r \in RemoteLists : PollComplete(i, r)

SpecTree == InitTree /\ [][NextTree]_vars

\* The provider while the store operations change the file under it.
LiveTitles == {"t", "u"}

LiveRemoteLists == {<<>>, <<ViewTask("c", "r", "in_progress")>>}

InitTreeLive ==
    /\ file = Stringify(EmptyStore(1))
    /\ clock = 1
    /\ op = "init"
    /\ arg = <<>>
    /\ ret = Null
    /\ treeUrl = TRUE
    /\ sidebarUrl = TRUE
    /\ ViewsIdle
    /\ remote = NoCall
    /\ OthersIdle

NextTreeLive ==
    \/ \E u \in BOOLEAN : TreeSetServerUrl(u)
    \/ TreeRefresh
    \/ PollStart
    \/ \E i \in 1..Len(polls), r \in LiveRemoteLists : PollComplete(i, r)
    \/ \E title \in LiveTitles : addTask("a", title, Undefined)
    \/ deleteTask("a")

SpecTreeLive == InitTreeLive /\ [][NextTreeLive]_vars

\* ------------------------------------------------- DevFlowSidebarProvider
\* The view is resolved and no refresh is under way.
InitSidebar ==
    /\ file \in ViewFiles
    /\ clock = 1
    /\ op = "init"
    /\ arg = <<>>
    /\ ret = Null
    /\ treeUrl = TRUE
    /\ sidebarUrl \in BOOLEAN
    /\ ViewsIdle
    /\ remote = NoCall
    /\ OthersIdle

SidebarSetServerUrl(u) ==
    /\ sidebarUrl' = u
    /\ UNCHANGED <<storeVars, treeVars, fetches, posted, remote, otherVars>>

\* refresh(): the local list is read; with a server URL the remote is asked
\* and the message waits for it, without one the local list is posted.
SidebarRefresh ==
    LET localTasks == LocalTasks(file, now)
    IN  /\ IF sidebarUrl
           THEN /\ Len(fetches) < MaxInFlight
                /\ fetches' = Append(fetches, localTasks)
                /\ UNCHANGED posted
           ELSE /\ posted' = <<[tasks |-> localTasks, local |-> localTasks, remote |-> <<>>]>>
                /\ UNCHANGED fetches
        /\ UNCHANGED <<storeVars, treeVars, sidebarUrl, remote, otherVars>>

\* The then-callback of refresh(): the merged list is posted. The message is
\* kept with the two lists it was made of.
SidebarFetchDone(i, remoteTasks) ==
    LET localTasks == fetches[i]
        merged == Merge(localTasks, remoteTasks)
    IN  /\ fetches' = Remove(fetches, i)
        /\ posted' = <<[tasks |-> merged, local |-> localTasks, remote |-> remoteTasks]>>
        /\ UNCHANGED <<storeVars, treeVars, sidebarUrl, remote, otherVars>>

NextSidebar ==
    \/ \E u \in BOOLEAN : SidebarSetServerUrl(u)
    \/ SidebarRefresh
    \/ \E i \in 1..Len(fetches), r \in RemoteLists : SidebarFetchDone(i, r)

SpecSidebar == InitSidebar /\ [][NextSidebar]_vars

\* ------------------------------ DevFlowSidebarProvider, deleteTask message
\* pending: the ids deleteTaskFromRemote has been called with and has not
\* resolved for. handled: the id of the last message whose handling has
\* come to its refresh(), when the local file held that id as the message
\* came. listed: the local list that refresh() has read.
NoDeletes == [pending |-> <<>>, handled |-> <<>>, listed |-> <<>>]

InitSidebarDelete ==
    /\ file \in ViewFiles
    /\ clock = 1
    /\ op = "init"
    /\ arg = <<>>
    /\ ret = Null
    /\ treeUrl = TRUE
    /\ sidebarUrl \in BOOLEAN
    /\ ViewsIdle
    /\ remote = NoCall
    /\ writers = <<>>
    /\ deletes = NoDeletes
    /\ panel = <<>>
    /\ watch = <<>>

\* The file the handler leaves: with a server URL it only calls
\* deleteTaskFromRemote, without one it calls deleteTask on the local file.
SidebarDeleteFile(f, id, t) == IF sidebarUrl THEN f ELSE deleteTaskFile(f, id, t)

\* onDidReceiveMessage with { type: "deleteTask", taskId: id }.
SidebarDeleteMessage(id) ==
    LET present == HasId(LocalTasks(file, now), id)
        after == SidebarDeleteFile(file, id, now)
    IN  /\ file' = after
        /\ IF sidebarUrl
           THEN /\ Len(deletes.pending) < MaxInFlight
                /\ deletes' = [deletes EXCEPT !.pending = Append(@, [id |-> id, present |-> present])]
                /\ UNCHANGED <<op, arg, ret, posted>>
           ELSE /\ op' = "deleteTask"
                /\ arg' = <<id>>
                /\ ret' = deleteTaskRet(file, id, now)
                /\ deletes' = [deletes EXCEPT !.handled = IF present THEN <<id>> ELSE <<>>,
                                              !.listed = LocalTasks(after, now)]
                /\ posted' = <<[tasks |-> LocalTasks(after, now),
                                local |-> LocalTasks(after, now), remote |-> <<>>]>>
        /\ UNCHANGED <<clock, treeVars, sidebarUrl, fetches, remote, writers, panel, watch>>

\* deleteTaskFromRemote has resolved, with true or false: the then-callback
\* calls refresh().
SidebarDeleteDone(i, success) ==
    LET localTasks == LocalTasks(file, now)
    IN  /\ i \in 1..Len(deletes.pending)
        /\ deletes' = [pending |-> Remove(deletes.pending, i),
                       handled |-> IF deletes.pending[i].present
                                   THEN <<deletes.pending[i].id>> ELSE <<>>,
                       listed |-> localTasks]
        /\ IF sidebarUrl
           THEN /\ Len(fetches) < MaxInFlight
                /\ fetches' = Append(fetches, localTasks)
                /\ UNCHANGED posted
           ELSE /\ posted' = <<[tasks |-> localTasks, local |-> localTasks, remote |-> <<>>]>>
                /\ UNCHANGED fetches
        /\ UNCHANGED <<storeVars, treeVars, sidebarUrl, remote, writers, panel, watch>>

NextSidebarDelete ==
    \/ \E u \in BOOLEAN : SidebarSetServerUrl(u)
    \/ SidebarRefresh
    \/ \E i \in 1..Len(fetches), r \in RemoteLists : SidebarFetchDone(i, r)
    \/ \E id \in {"a", "b"} : SidebarDeleteMessage(id)
    \/ \E i \in 1..MaxInFlight, success \in BOOLEAN : SidebarDeleteDone(i, success)

SpecSidebarDelete == InitSidebarDelete /\ [][NextSidebarDelete]_vars

\* ------------------------------------------------------------ DevFlowPanel
\* url: _serverUrl, set once by the constructor. disposed: _disposed.
\* fetches: the local lists of the update() calls whose loadTasksFromRemote
\* has not resolved. message: the last message handed to postMessage. late:
\* that postMessage call was made with _disposed already true.
NewPanel(u) ==
    [url |-> u, disposed |-> FALSE, fetches |-> <<>>, message |-> <<>>, late |-> FALSE]

\* update() as called on the panel pn over the local list localTasks.
PanelAfterUpdate(pn, localTasks) ==
    IF pn.disposed THEN pn
    ELSE IF pn.url THEN [pn EXCEPT !.fetches = Append(@, localTasks)]
    ELSE [pn EXCEPT !.message = <<localTasks>>, !.late = FALSE]

\* The panel has been created: the constructor has called update().
InitPanel ==
    /\ file \in ViewFiles
    /\ clock = 1
    /\ op = "init"
    /\ arg = <<>>
    /\ ret = Null
    /\ treeUrl = TRUE
    /\ sidebarUrl = TRUE
    /\ ViewsIdle
    /\ remote = NoCall
    /\ writers = <<>>
    /\ deletes = <<>>
    /\ \E u \in BOOLEAN : panel = PanelAfterUpdate(NewPanel(u), LocalTasks(file, now))
    /\ watch = <<>>

\* update(), from createOrShow, the watchers or the polling timer.
PanelUpdate ==
    /\ Len(panel.fetches) < MaxInFlight
    /\ panel' = PanelAfterUpdate(panel, LocalTasks(file, now))
    /\ UNCHANGED <<storeVars, treeVars, sidebarVars, remote, writers, deletes, watch>>

\* onDidDispose: the user has closed the panel.
PanelDispose ==
    /\ ~panel.disposed
    /\ panel' = [panel EXCEPT !.disposed = TRUE]
    /\ UNCHANGED <<storeVars, treeVars, sidebarVars, remote, writers, deletes, watch>>

\* The then-callback of update(): the merged list goes to postMessage.
PanelFetchDone(i, remoteTasks) ==
    /\ panel' = [panel EXCEPT !.fetches = Remove(@, i),
                              !.message = <<Merge(panel.fetches[i], remoteTasks)>>,
                              !.late = panel.disposed]
    /\ UNCHANGED <<storeVars, treeVars, sidebarVars, remote, writers, deletes, watch>>

\* onDidReceiveMessage with { type: 'deleteTask', taskId: id }, which only a
\* webview that is still there sends: deleteTask, then update().
PanelDeleteMessage(id) ==
    /\ ~panel.disposed
    /\ Len(panel.fetches) < MaxInFlight
    /\ file' = deleteTaskFile(file, id, now)
    /\ op' = "deleteTask"
    /\ arg' = <<id>>
    /\ ret' = deleteTaskRet(file, id, now)
    /\ panel' = PanelAfterUpdate(panel, LocalTasks(deleteTaskFile(file, id, now), now))
    /\ UNCHANGED <<clock, treeVars, sidebarVars, remote, writers, deletes, watch>>

NextPanel ==
    \/ PanelUpdate
    \/ PanelDispose
    \/ \E i \in 1..Len(panel.fetches), r \in RemoteLists : PanelFetchDone(i, r)
    \/ \E id \in {"a", "b"} : PanelDeleteMessage(id)

SpecPanel == InitPanel /\ [][NextPanel]_vars

\* ------------------------------------------- activate: new-task notification
\* The two watchers of .tasks.json: the FileSystemWatcher of the editor and
\* the stat watcher of fs.watchFile.
Watchers == {"watcher", "fsWatcher"}

\* Notifications of one task are counted up to this number.
MaxShown == 2

\* new Set(data.tasks.map(t => t.id))
TaskIds(tasks) == {tasks[i].id : i \in 1..Len(tasks)}

\* lastTaskIds: the set of that name. shown: how often the 'AI added task'
\* notification has been shown for an id. user: the ids of the tasks the
\* devflow.addTask command has added. seen: the file as it was when each
\* watcher last called back.
WatchIdle(f, t) ==
    [lastTaskIds |-> TaskIds(loadTasks(f, t).tasks),
     shown |-> [id \in Ids |-> 0],
     user |-> {},
     seen |-> [w \in Watchers |-> f]]

\* The extension is activated on an existing file; an external writer has
\* the project open too.
InitWatch ==
    /\ file = Stringify(EmptyStore(1))
    /\ clock = 1
    /\ op = "init"
    /\ arg = <<>>
    /\ ret = Null
    /\ treeUrl = TRUE
    /\ sidebarUrl = TRUE
    /\ ViewsIdle
    /\ remote = NoCall
    /\ writers = WritersIdle(file)
    /\ deletes = <<>>
    /\ panel = <<>>
    /\ watch = WatchIdle(file, now)

\* The notifications after the handler has run over the tasks it loaded: one
\* for every task whose id is not in lastTaskIds, when source is "external".
ShownAfter(shown, tasks, last, source) ==
    [id \in Ids |->
        IF source = "external" /\ id \notin last /\ id \in TaskIds(tasks)
        THEN IF shown[id] < MaxShown THEN shown[id] + 1 ELSE MaxShown
        ELSE shown[id]]

\* A watcher calls back after the file has changed:
\* onTasksFileChanged("external"), which ends with treeProvider.refresh().
WatchEvent(w) ==
    LET tasks == loadTasks(file, now).tasks
    IN  /\ file # watch.seen[w]
        /\ watch' = [watch EXCEPT
                        !.shown = ShownAfter(watch.shown, tasks, watch.lastTaskIds, "external"),
                        !.lastTaskIds = TaskIds(tasks),
                        !.seen[w] = file]
        /\ treeTasks' = tasks
        /\ lastFingerprint' = tasksFingerprint(tasks)
        /\ lastLocal' = tasks
        /\ UNCHANGED <<storeVars, treeUrl, polls, lastPoll, sidebarVars, remote, writers,
                       deletes, panel>>

\* The devflow.addTask command after its input box has returned title: an
\* empty title ends it; otherwise addTask, lastTaskIds.add(task.id) and
\* treeProvider.refresh().
AddTaskCommand(id, title) ==
    IF title = ""
    THEN UNCHANGED vars
    ELSE /\ ~Busy("editor")
         /\ Len(loadTasks(file, now).tasks) < MaxTasks
         /\ file' = addTaskFile(file, id, title, Undefined, now)
         /\ op' = "addTask"
         /\ arg' = <<id, title, Undefined>>
         /\ ret' = addTaskRet(file, id, title, Undefined, now)
         /\ watch' = [watch EXCEPT !.lastTaskIds = @ \cup {id}, !.user = @ \cup {id}]
         /\ treeTasks' = LocalTasks(addTaskFile(file, id, title, Undefined, now), now)
         /\ lastFingerprint' =
              tasksFingerprint(LocalTasks(addTaskFile(file, id, title, Undefined, now), now))
         /\ lastLocal' = LocalTasks(addTaskFile(file, id, title, Undefined, now), now)
         /\ UNCHANGED <<clock, treeUrl, polls, lastPoll, sidebarVars, remote, writers,
                        deletes, panel>>

\* The external writer is call 3 of the calls sharing the file.
NextWatch ==
    \/ \E w \in Watchers : WatchEvent(w)
    \/ \E title \in {"", "t"} : AddTaskCommand("a", title)
    \/ \E o \in CallOps : CallLoad(3, o)
    \/ CallOpen(3)
    \/ CallWrite(3)

SpecWatch == InitWatch /\ [][NextWatch]_vars

\* ------------------------------------------------------------- claims
\* The tasks of the store a file holds (none when it is missing or unparsable).
StoredTasks(f) == IF f.kind = "valid" THEN f.tasks ELSE <<>>

\* C1: in every reachable store state the ids of the stored tasks are
\* pairwise distinct.
C1_IdsDistinct ==
    \A i, j \in 1..Len(StoredTasks(file)) :
        i # j => StoredTasks(file)[i].id # StoredTasks(file)[j].id

\* C2: completeTask(id) with the id of a stored task returns the task found
\* under that id, with status done and completedAt = now, and the file then
\* holds the returned task at the place of the found one, whatever its status
\* was before.
C2_CompleteSetsDone ==
    [][(op' = "completeTask" /\ HasId(StoredTasks(file), arg'[1])) =>
         LET pre == StoredTasks(file)
             post == StoredTasks(file')
             k == CHOOSE i \in 1..Len(pre) :
                      /\ pre[i].id = arg'[1]
                      /\ \A j \in 1..(i - 1) : pre[j].id # arg'[1]
         IN  /\ ret' # Null
             /\ ret'[1].id = arg'[1]
             /\ ret'[1].title = pre[k].title
             /\ ret'[1].createdAt = pre[k].createdAt
             /\ ret'[1].status = "done"
             /\ ret'[1].completedAt # Absent
             /\ ret'[1].completedAt = Some(clock)
             /\ file'.kind = "valid"
             /\ Len(post) = Len(pre)
             /\ post[k] = ret'[1]]_vars

\* C2 witness: completeTask has just completed, at the latest time, a task
\* that was created earlier and had been snoozed.
C2_Witness ==
    /\ op = "completeTask"
    /\ ret # Null
    /\ ret[1].snoozedUntil # Absent
    /\ ret[1].completedAt = Some(MaxClock)
    /\ ret[1].createdAt < MaxClock

\* C3: startTask, completeTask and snoozeTask with an id no stored task has
\* return null and leave the file as it was, lastUpdated included.
C3_NotFoundLeavesFile ==
    [][(/\ op' \in {"startTask", "completeTask", "snoozeTask"}
        /\ ~HasId(StoredTasks(file), arg'[1])) =>
         (ret' = Null /\ file' = file)]_vars

\* C3 witness: a transition has just returned null on a store that holds a
\* task under another id and was last saved at an earlier time.
C3_Witness ==
    /\ op \in {"startTask", "completeTask", "snoozeTask"}
    /\ ret = Null
    /\ Len(StoredTasks(file)) > 0
    /\ file.lastUpdated < clock

\* C4: deleteTask(id) returns true exactly when a stored task has the id;
\* then the stored sequence loses exactly one task, one with that id, and
\* keeps the others in their order; otherwise the file is unchanged.
C4_DeleteRemovesOne ==
    [][op' = "deleteTask" =>
         LET pre == StoredTasks(file)
             post == StoredTasks(file')
             id == arg'[1]
         IN  /\ ret' = <<HasId(pre, id)>>
             /\ HasId(pre, id) =>
                  /\ Len(post) = Len(pre) - 1
                  /\ \E k \in 1..Len(pre) :
                        /\ pre[k].id = id
                        /\ \A i \in 1..Len(post) :
                              post[i] = IF i < k THEN pre[i] ELSE pre[i + 1]
             /\ ~HasId(pre, id) => (post = pre /\ file' = file)]_vars

\* C4 witness: deleteTask has just returned true and a task is left.
C4_Witness ==
    /\ op = "deleteTask"
    /\ ret = <<TRUE>>
    /\ Len(StoredTasks(file)) > 0

\* C5: for the file of every reachable state, saveTasks(loadTasks()) leaves
\* the tasks a later loadTasks returns equal to those loadTasks returned
\* before, stamps lastUpdated, and a second round trip gives the tasks of the
\* first.
C5_RoundTrip ==
    LET before == loadTasks(file, now)
        once == saveTasks(loadTasks(file, now), now)
        twice == saveTasks(loadTasks(once, now), now)
    IN  /\ loadTasks(once, now).tasks = before.tasks
        /\ loadTasks(once, now).version = before.version
        /\ loadTasks(once, now).lastUpdated = now
        /\ loadTasks(twice, now).tasks = loadTasks(once, now).tasks
        /\ op = "roundTrip" => (file.kind = "valid" /\ file.lastUpdated = now)

\* C5 witness: the round trip has just rewritten a store that holds a
\* completed task and whose previous save was earlier.
C5_Witness ==
    /\ op = "roundTrip"
    /\ \E i \in 1..Len(StoredTasks(file)) :
          /\ file.tasks[i].completedAt # Absent
          /\ file.tasks[i].completedAt # Some(file.lastUpdated)

\* C10: loadTasks on a missing or unparsable file returns the empty store
\* (version 1, no tasks, lastUpdated = now) and does not touch the file.
C10_LoadFallsBack ==
    [][(op' = "loadTasks" /\ file.kind \in {"missing", "corrupt"}) =>
         /\ ret' = <<[version |-> 1, tasks |-> <<>>, lastUpdated |-> clock]>>
         /\ file' = file]_vars

\* C10 witness: loadTasks has just answered for an unparsable file at a time
\* later than the start.
C10_Witness ==
    /\ op = "loadTasks"
    /\ file.kind = "corrupt"
    /\ ret[1].lastUpdated = MaxClock

\* C11: on a store file that is valid JSON of another shape, loadTasks
\* returns the empty store and no operation of the store ends by raising.
C11_ShapelessNeverRaises ==
    /\ ret # TypeError
    /\ op = "loadTasks" => ~IsMark(ret[1].tasks)

\* The places of the tasks of the sequence that satisfy P, and the test that
\* result holds exactly the tasks at those places, each once, in their order.
Places(tasks, P(_)) == {i \in 1..Len(tasks) : P(tasks[i])}

IsSelection(result, tasks, J) ==
    /\ Len(result) = Cardinality(J)
    /\ \A j \in J : result[Cardinality({k \in J : k <= j})] = tasks[j]

\* C12: getTasks with a status filter s and no date filter returns exactly
\* the tasks of the file whose status is s, each once, in the order of the
\* file, and leaves the file as it was.
C12_StatusFilter ==
    [][(op' = "getTasks" /\ arg'[1].status # Absent /\ ~HasDate(arg'[1])) =>
         /\ file' = file
         /\ Len(ret') = 1
         /\ IsSelection(ret'[1], StoredTasks(file),
                        Places(StoredTasks(file), LAMBDA t : t.status = arg'[1].status[1]))]_vars

\* C12 witness: a status query has returned two of three tasks, the first
\* and the third of the file.
C12_Witness ==
    /\ op = "getTasks"
    /\ arg[1].status = Some("pending")
    /\ arg[1].date = Absent
    /\ Len(file.tasks) = 3
    /\ file.tasks[2].status = "done"
    /\ ret = <<<<file.tasks[1], file.tasks[3]>>>>
    /\ file.tasks[1] # file.tasks[3]

\* C15: the promise of loadTasksFromRemote is never rejected, and when the
\* request is over after an error, a timeout or an unparsable body, it is
\* resolved with a store without tasks.
C15_RemoteAlwaysResolves ==
    /\ remote.promise # "rejected"
    /\ remote.phase = "over" => remote.promise = "resolved"
    /\ (remote.phase = "over" /\ (remote.body = <<>> \/ remote.chunks < MaxChunks
                                     \/ remote.body[1].kind \in {"null", "text"})) =>
          (remote.promise = "resolved" /\ remote.store[1].tasks = <<>>)

\* C16: a store resolved from a response whose status is not 2xx has no tasks.
C16_ErrorStatusIsEmpty ==
    (remote.promise = "resolved" /\ remote.status # 0 /\ remote.status \notin 200..299) =>
        remote.store[1].tasks = <<>>

\* C17 as stated: a stored task has completedAt only if its status is done
\* and snoozedUntil only if its status is snoozed.
C17_FieldsOnlyInStatus ==
    \A i \in 1..Len(StoredTasks(file)) :
        LET t == StoredTasks(file)[i]
        IN  /\ t.completedAt # Absent => t.status = "done"
            /\ t.snoozedUntil # Absent => t.status = "snoozed"

\* C17 amended: a stored task with status done has completedAt, one with
\* status snoozed has snoozedUntil, and a pending task has neither; a task
\* that has left done or snoozed may still have the field.
C17_FieldsSetByStatus ==
    \A i \in 1..Len(StoredTasks(file)) :
        LET t == StoredTasks(file)[i]
        IN  /\ t.status = "done" => t.completedAt # Absent
            /\ t.status = "snoozed" => t.snoozedUntil # Absent
            /\ t.status = "pending" => (t.completedAt = Absent /\ t.snoozedUntil = Absent)

\* C17 witness: a task that was completed and then snoozed is stored next to
\* a pending task.
C17_Witness ==
    /\ Len(StoredTasks(file)) = 2
    /\ file.tasks[1].status = "snoozed"
    /\ file.tasks[1].completedAt # Absent
    /\ file.tasks[1].snoozedUntil # Absent
    /\ file.tasks[2].status = "pending"

\* True when k is the place of the task a transition finds under the id: the
\* first that has it.
IsFirstPlace(tasks, id, k) == tasks[k].id = id /\ \A j \in 1..(k - 1) : tasks[j].id # id

\* C18: startTask changes only the status of the task it finds, completeTask
\* only its status and completedAt, snoozeTask only its status and
\* snoozedUntil; every other field of the task keeps its value, a completedAt
\* or snoozedUntil set before included, and every other task is unchanged.
C18_TransitionFrame ==
    [][(/\ op' \in {"startTask", "completeTask", "snoozeTask"}
        /\ HasId(StoredTasks(file), arg'[1])) =>
         LET pre == StoredTasks(file)
             post == StoredTasks(file')
         IN  /\ Len(post) = Len(pre)
             /\ \E k \in 1..Len(pre) :
                   /\ IsFirstPlace(pre, arg'[1], k)
                   /\ \A i \in 1..Len(pre) : i # k => post[i] = pre[i]
                   /\ post[k].id = pre[k].id
                   /\ post[k].title = pre[k].title
                   /\ post[k].description = pre[k].description
                   /\ post[k].createdAt = pre[k].createdAt
                   /\ op' # "completeTask" => post[k].completedAt = pre[k].completedAt
                   /\ op' # "snoozeTask" => post[k].snoozedUntil = pre[k].snoozedUntil]_vars

\* C18 witness: startTask has just started a task that was completed and
\* snoozed before, in a store that holds another task.
C18_Witness ==
    /\ op = "startTask"
    /\ ret # Null
    /\ ret[1].completedAt # Absent
    /\ ret[1].snoozedUntil # Absent
    /\ Len(StoredTasks(file)) = 2

\* C19: a stored task is pending only if addTask has just appended it or it
\* was pending at its place before the step, so that a task that has left
\* pending never gets it back; and startTask, completeTask and snoozeTask give
\* the task they find their status whatever its status was.
C19_PendingOnlyFromCreation ==
    [][LET pre == StoredTasks(file)
           post == StoredTasks(file')
       IN  /\ \A i \in 1..Len(post) :
                 post[i].status = "pending" =>
                     \/ op' = "addTask" /\ i = Len(post) /\ Len(post) = Len(pre) + 1
                     \/ /\ op' = "deleteTask"
                        /\ \E j \in {i, i + 1} : j <= Len(pre) /\ pre[j] = post[i]
                     \/ /\ op' # "deleteTask"
                        /\ i <= Len(pre)
                        /\ pre[i] = post[i]
           /\ (/\ op' \in {"startTask", "completeTask", "snoozeTask"}
               /\ HasId(pre, arg'[1])) =>
                 /\ ret' # Null
                 /\ Len(ret') = 1
                 /\ ret'[1].status = (CASE op' = "startTask" -> "in_progress"
                                        [] op' = "completeTask" -> "done"
                                        [] op' = "snoozeTask" -> "snoozed")
                 /\ \E k \in 1..Len(pre) : IsFirstPlace(pre, arg'[1], k) /\ post[k] = ret'[1]]_vars

\* C19 witness: startTask has just been applied to a task that was done, next
\* to a task that is still pending.
C19_Witness ==
    /\ op = "startTask"
    /\ ret # Null
    /\ ret[1].status = "in_progress"
    /\ ret[1].completedAt # Absent
    /\ Len(StoredTasks(file)) = 2
    /\ \E i \in 1..2 : file.tasks[i].status = "pending"

\* C20: every step of getTasks, addTask, startTask, completeTask and
\* snoozeTask keeps each stored task at its place, and a deleteTask step
\* keeps the tasks of every other id, in their order, and removes at most
\* one task.
C20_OnlyDeleteDestroys ==
    [][LET pre == StoredTasks(file)
           post == StoredTasks(file')
       IN  /\ op' \in {"getTasks", "addTask", "startTask", "completeTask", "snoozeTask"} =>
                 /\ Len(post) >= Len(pre)
                 /\ \A i \in 1..Len(pre) :
                       /\ post[i].id = pre[i].id
                       /\ post[i].title = pre[i].title
                       /\ post[i].createdAt = pre[i].createdAt
           /\ op' = "deleteTask" =>
                 /\ Len(post) >= Len(pre) - 1
                 /\ SelectSeq(post, LAMBDA t : t.id # arg'[1])
                       = SelectSeq(pre, LAMBDA t : t.id # arg'[1])]_vars

\* C20 witness: deleteTask has just removed a task of one id from a store
\* that holds a task of another id, which was there before other calls.
C20_Witness ==
    /\ op = "deleteTask"
    /\ ret = <<TRUE>>
    /\ Len(StoredTasks(file)) = 1
    /\ file.tasks[1].id # arg[1]
    /\ file.tasks[1].status = "done"

\* C21: no stored task has the empty string as its title.
C21_TitlesNonEmpty ==
    \A i \in 1..Len(StoredTasks(file)) : StoredTasks(file)[i].title # ""

\* C14: addTask on a valid store leaves the stored tasks as and where they
\* were, appends one task with status pending, the title and description
\* given, createdAt = now and neither completedAt nor snoozedUntil, stamps and
\* writes the file, and returns the task it has written.
C14_AddAppends ==
    [][(op' = "addTask" /\ file.kind = "valid") =>
         LET pre == StoredTasks(file)
             post == StoredTasks(file')
             new == post[Len(post)]
         IN  /\ file'.kind = "valid"
             /\ file'.version = file.version
             /\ file'.lastUpdated = clock
             /\ Len(post) = Len(pre) + 1
             /\ \A i \in 1..Len(pre) : post[i] = pre[i]
             /\ new.status = "pending"
             /\ new.title = arg'[2]
             /\ new.description = (IF arg'[3] = Undefined THEN Absent ELSE arg'[3])
             /\ new.createdAt = clock
             /\ new.completedAt = Absent
             /\ new.snoozedUntil = Absent
             /\ Len(ret') = 1
             /\ ret'[1].description = arg'[3]
             /\ StringifyTask(ret'[1]) = new]_vars

\* C14 witness: addTask has just appended, at a later time, a task with a
\* description to a store that held a snoozed task under the same id.
C14_Witness ==
    /\ op = "addTask"
    /\ arg[3] = Some("d")
    /\ clock = MaxClock
    /\ Len(StoredTasks(file)) = 2
    /\ file.tasks[1].status = "snoozed"
    /\ file.tasks[1].id = file.tasks[2].id
    /\ file.tasks[2].createdAt = MaxClock
    /\ file.tasks[2].title = "u"

\* On or before, for the dates of the model: day numbers, the empty string
\* before every day.
OnOrBefore(snoozedUntil, d) == snoozedUntil # Absent /\ snoozedUntil[1] <= d

\* C13 as stated: getTasks with a date filter d returns a snoozed task
\* exactly when its snoozedUntil is on or before d, and every task that is
\* not snoozed.
C13_DateFilter ==
    (op = "getTasks" /\ arg[1].status = Absent /\ HasDate(arg[1])) =>
        IsSelection(ret[1], StoredTasks(file),
                    Places(StoredTasks(file),
                           LAMBDA t : \/ t.status # "snoozed"
                                      \/ OnOrBefore(t.snoozedUntil, arg[1].date[1])))

\* C13 amended: getTasks with a date filter d returns a snoozed task whose
\* snoozedUntil is a date exactly when that date is on or before d, a
\* snoozed task whose snoozedUntil is the empty string exactly when it was
\* created on day d, and every task that is not snoozed, whatever its
\* createdAt.
C13_DateFilterNonEmptyUntil ==
    (op = "getTasks" /\ arg[1].status = Absent /\ HasDate(arg[1])) =>
        IsSelection(ret[1], StoredTasks(file),
                    Places(StoredTasks(file),
                           LAMBDA t : \/ t.status # "snoozed"
                                      \/ /\ t.snoozedUntil \notin {Absent, Some(0)}
                                         /\ t.snoozedUntil[1] <= arg[1].date[1]
                                      \/ /\ t.snoozedUntil \in {Absent, Some(0)}
                                         /\ t.createdAt = arg[1].date[1]))

\* C13 witness: a date query has returned a task that is not snoozed and was
\* created on another day and a task snoozed until the day asked for, and has
\* left out a task snoozed until a later day.
C13_Witness ==
    /\ op = "getTasks"
    /\ arg[1] = [status |-> Absent, date |-> Some(1)]
    /\ Len(file.tasks) = 3
    /\ file.tasks[1].status = "pending" /\ file.tasks[1].createdAt = 2
    /\ file.tasks[2].status = "snoozed" /\ file.tasks[2].snoozedUntil = Some(MaxDate + 1)
    /\ file.tasks[3].status = "snoozed" /\ file.tasks[3].snoozedUntil = Some(1)
    /\ ret = <<<<file.tasks[1], file.tasks[3]>>>>

\* True when the ids of the tasks of the sequence are pairwise distinct.
DistinctIds(tasks) ==
    \A i, j \in 1..Len(tasks) : i # j => tasks[i].id # tasks[j].id

\* C6: the merged list a refresh posts is the local list L followed by the
\* tasks of the remote list R whose id no task of L has, in R's order; under
\* an id both lists hold, the merged list has the local task only.
C6_MergedList ==
    posted # <<>> =>
        LET L == posted[1].local
            R == posted[1].remote
            M == posted[1].tasks
            J == {j \in 1..Len(R) : \A i \in 1..Len(L) : L[i].id # R[j].id}
        IN  /\ Len(M) = Len(L) + Cardinality(J)
            /\ \A i \in 1..Len(L) : M[i] = L[i]
            /\ \A j \in J : M[Len(L) + Cardinality({k \in J : k <= j})] = R[j]
            /\ \A i \in (Len(L) + 1)..Len(M) : \A k \in 1..Len(L) : M[i].id # L[k].id

\* C6 witness: a merged list has been posted for a remote list that holds a
\* task under the id of a local task, with other fields, before a new one.
C6_Witness ==
    /\ posted # <<>>
    /\ Len(posted[1].local) = 2
    /\ Len(posted[1].remote) = 2
    /\ posted[1].remote[1].id = posted[1].local[2].id
    /\ posted[1].remote[1] # posted[1].local[2]
    /\ posted[1].remote[2].id = "c"
    /\ Len(posted[1].tasks) = 3

\* C7 as stated: when the ids of the local list are pairwise distinct, so are
\* the ids of the merged list, for every remote list.
C7_MergedIdsDistinct ==
    (lastPoll # NoPoll /\ DistinctIds(lastPoll[1].local)) =>
        DistinctIds(lastPoll[1].merged)

\* C7 amended: when the ids of the local list are pairwise distinct and the
\* ids of the remote list are pairwise distinct, so are the ids of the merged
\* list.
C7_MergedIdsDistinctForDistinctRemote ==
    (/\ lastPoll # NoPoll
     /\ DistinctIds(lastPoll[1].local)
     /\ DistinctIds(lastPoll[1].remote)) =>
        DistinctIds(lastPoll[1].merged)

\* C7 witness: a poll has merged a local list of two ids with a remote list
\* of two ids, one of them local too.
C7_Witness ==
    /\ lastPoll # NoPoll
    /\ Len(lastPoll[1].local) = 2
    /\ DistinctIds(lastPoll[1].local)
    /\ Len(lastPoll[1].remote) = 2
    /\ DistinctIds(lastPoll[1].remote)
    /\ Len(lastPoll[1].merged) = 3

\* C8: the stored fingerprint is the fingerprint of the shown list taken in
\* any order, and of the shown list with other titles: it depends on the
\* (id, status) pairs only, not on their order.
C8_FingerprintOrderFree ==
    /\ \A p \in Permutations(1..Len(treeTasks)) :
          tasksFingerprint([i \in 1..Len(treeTasks) |-> treeTasks[p[i]]]) = lastFingerprint
    /\ tasksFingerprint([i \in 1..Len(treeTasks) |-> [treeTasks[i] EXCEPT !.title = "x"]])
          = lastFingerprint

\* C8 witness: a poll has put a merged list on show whose entries are not in
\* the order of their id:status strings.
C8_Witness ==
    /\ lastPoll # NoPoll
    /\ treeTasks = lastPoll[1].merged
    /\ Len(treeTasks) = 3
    /\ treeTasks[1].id = "b"
    /\ treeTasks[2].id = "a"
    /\ treeTasks[3].id = "c"

\* C9: giving any one task of the shown list any other status gives a
\* fingerprint that differs from the stored one.
C9_FingerprintSeesStatus ==
    \A i \in 1..Len(treeTasks) :
        \A st \in Statuses \ {treeTasks[i].status} :
            tasksFingerprint([treeTasks EXCEPT ![i].status = st]) # lastFingerprint

\* C9 witness: a poll has put a merged list on show that holds local and
\* remote tasks.
C9_Witness ==
    /\ lastPoll # NoPoll
    /\ treeTasks = lastPoll[1].merged
    /\ Len(lastPoll[1].local) = 2
    /\ Len(treeTasks) = 4


\* Calls 1 and 2, both of the editor process, have returned and no other
\* process has touched the file.
EditorCallsDone ==
    /\ writers # <<>>
    /\ writers.calls[1].pc = "done"
    /\ writers.calls[2].pc = "done"
    /\ writers.calls[3].pc = "idle"

\* The tasks the file holds when the two operations run one after the other,
\* in either order.
SerialResults(o1, o2, f, t) ==
    {loadTasks(ApplyOp(o2, ApplyOp(o1, f, t), t), t).tasks,
     loadTasks(ApplyOp(o1, ApplyOp(o2, f, t), t), t).tasks}

\* C22 as stated: after two calls of the same process have both finished,
\* the file is not what the two changes one after the other give: a change
\* is missing.
C22_SameProcessLosesChange ==
    EditorCallsDone =>
        StoredTasks(file) \notin
            SerialResults(writers.calls[1].op[1], writers.calls[2].op[1], writers.initial, now)

\* C22: two calls of the same process run one after the other: after both
\* have finished the file holds both changes.
C22_SameProcessSerialized ==
    EditorCallsDone =>
        StoredTasks(file) \in
            SerialResults(writers.calls[1].op[1], writers.calls[2].op[1], writers.initial, now)

C22_Witness ==
    /\ EditorCallsDone
    /\ writers.calls[1].op[1].name = "addTask"
    /\ writers.calls[2].op[1].name = "completeTask"
    /\ writers.calls[1].text # <<>>
    /\ writers.calls[2].text # <<>>
    /\ Len(StoredTasks(file)) = 2
    /\ StoredTasks(file)[1].status = "done"

\* C23: a loadTasks in one process while a saveTasks of another process is
\* writing returns the tasks the file held before that save or the tasks the
\* save writes.
C23_LoadSeesOldOrNew ==
    (writers # <<>> /\ writers.seen # <<>>) =>
        \A s \in writers.seen[1].saving : writers.seen[1].tasks \in {s.old, s.new}

\* Calls c and d of different processes have both saved, c loaded before d
\* had finished its save, and no other call has begun.
Overlapped(c, d) ==
    /\ writers # <<>>
    /\ ProcessOf(c) # ProcessOf(d)
    /\ writers.calls[c].pc = "done" /\ writers.calls[c].text # <<>>
    /\ writers.calls[d].pc = "done" /\ writers.calls[d].text # <<>>
    /\ d \in writers.calls[c].overlapped
    /\ \A x \in Calls \ {c, d} : writers.calls[x].pc = "idle"

\* C25: when a writer of one process loads before a writer of another
\* process has saved, the file after both saves is the text the later save
\* wrote.
C25_LastWriteWins ==
    \A c, d \in Calls :
        Overlapped(c, d) => file = writers.calls[writers.lastWrite].text[1]


\* C24: once the sidebar has handled a deleteTask message for an id the
\* local file held, the local file holds no task with that id and the local
\* list read for the next message to the view does not hold it either.
C24_DeleteReachesLocalStore ==
    (deletes # <<>> /\ deletes.handled # <<>>) =>
        /\ ~HasId(LocalTasks(file, now), deletes.handled[1])
        /\ ~HasId(deletes.listed, deletes.handled[1])


\* C26: a poll whose merged list has the stored fingerprint leaves the
\* displayed list as it is and fires no change event; a poll whose merged
\* list has another fingerprint makes the merged list the displayed one and
\* fires one change event.
C26_PollChangeDetection ==
    [][Len(polls') < Len(polls) =>
         IF tasksFingerprint(lastPoll'[1].merged) = lastFingerprint
         THEN treeTasks' = treeTasks /\ lastPoll'[1].fired = 0
         ELSE treeTasks' = lastPoll'[1].merged /\ lastPoll'[1].fired = 1]_vars

\* A poll has passed without an event although its merged list differs from
\* the displayed one in a title only.
C26_Witness ==
    /\ lastPoll # NoPoll
    /\ lastPoll[1].fired = 0
    /\ Len(treeTasks) = Len(lastPoll[1].merged)
    /\ \A i \in 1..Len(treeTasks) :
          /\ treeTasks[i].id = lastPoll[1].merged[i].id
          /\ treeTasks[i].status = lastPoll[1].merged[i].status
    /\ \E i \in 1..Len(treeTasks) : treeTasks[i].title # lastPoll[1].merged[i].title

\* C27: the stored fingerprint is the fingerprint of the displayed list.
C27_FingerprintOfDisplayed == lastFingerprint = tasksFingerprint(treeTasks)

C27_Witness ==
    /\ lastPoll # NoPoll
    /\ lastPoll[1].fired = 1
    /\ treeTasks = lastPoll[1].merged
    /\ Len(treeTasks) = 2
    /\ polls # <<>>
    /\ lastFingerprint = tasksFingerprint(treeTasks)

\* The displayed tasks that came from the local file.
LocalPart(tasks) == SelectSeq(tasks, LAMBDA t : "remote" \notin DOMAIN t)

\* C28: once no fetch is in flight, the local part of the displayed list is
\* the local list read by the most recent refresh or poll.
C28_LocalAuthoritative == polls = <<>> => LocalPart(treeTasks) = lastLocal


\* C29: no message is handed to postMessage once the panel is disposed.
C29_NoPostAfterDispose == panel # <<>> => ~panel.late


\* C30: the 'AI added task' notification is shown at most once for a task
\* and never for a task the devflow.addTask command added.
C30_NotifiedOnceAndNotForUser ==
    watch # <<>> =>
        \A id \in Ids :
            /\ watch.shown[id] <= 1
            /\ id \in watch.user => watch.shown[id] = 0

====
